---- MODULE Spec2Model ----
(***************************************************************************)
(* Model of the EasyRoutes SMS tool: the command-line pipeline             *)
(* (process_routes), the web app's session and handler (login, logout,     *)
(* require_auth, send_sms / send_messages_to_stops), the stop filter, the  *)
(* route-data client's token handling, the SMS client's phone formatting,  *)
(* the template renderer and status messages, and the operator's form      *)
(* (SMSForm: preview, send, reset).                                        *)
(***************************************************************************)
EXTENDS Integers, Sequences, FiniteSets, TLC

\* ------------------------------------------------------------------ bounds
\* The longest route the backend returns in the model.
MaxStops == 3

\* ------------------------------------------------------------ data model
\* DeliveryStatus enum of a RouteStop.
DeliveryStatus ==
  {"UNKNOWN", "DELIVERED", "OUT_FOR_DELIVERY", "ATTEMPTED_DELIVERY", "READY_FOR_DELIVERY"}

\* Strings the code indexes or rewrites (phone numbers) are sequences of
\* one-character strings. contact.get("phone", "") of a stop without a phone
\* number is the empty string.
NoPhone == <<>>

\* Python's None, where the code stores it in place of a phone.
None == <<>>

\* Contact phones a stop of the model carries: none, or a ten-digit number.
Phones == {NoPhone, <<"5", "5", "5", "1", "2", "3", "4", "5", "6", "7">>}

\* A stop as the pipeline reads it: id (its position in route.stops, so ids are
\* unique and ordered as the route), deliveryStatus, contact phone.
MkStops(f) ==
  [k \in DOMAIN f |-> [id |-> k, deliveryStatus |-> f[k][1], phone |-> f[k][2]]]

\* Every route.stops array of the model: 0..MaxStops stops.
RouteStops ==
  UNION {{MkStops(f) : f \in [1..n -> DeliveryStatus \X Phones]} : n \in 0..MaxStops}

\* What messages.create does for one call: returns a message, raises a
\* TwilioException (here: the number is rejected, or the provider's rate limit
\* is hit), or raises another exception (network failure).
ProviderOutcomes == {"ok", "twilio_error", "rate_limited", "other_exception"}

\* await asyncio.sleep(1), the pause of process_routes after each send
\* (RATE_LIMIT_DELAY of the configuration has the same value). The clock of
\* the model advances by the pauses the code makes; a call of the provider is
\* taken to return at once, the least time it can take.
RATE_LIMIT_DELAY == 1

\* ------------------------------------------------------------- the filter
\* RouteStop.is_incomplete, and the test of get_incomplete_stops.
is_incomplete_treats_unknown_as_done(stop) ==
  stop.deliveryStatus \notin {"DELIVERED", "UNKNOWN"}

is_incomplete_always(stop) == TRUE

is_incomplete(stop) == stop.deliveryStatus /= "DELIVERED"

\* Route.incomplete_stops: the list comprehension over self.stops.
incomplete_stops(stops) == SelectSeq(stops, is_incomplete)

\* EasyRoutesClient.get_incomplete_stops: the loop that appends each stop whose
\* deliveryStatus is not "DELIVERED".
RECURSIVE get_incomplete_stops_from(_, _, _)
get_incomplete_stops_from(stops, k, acc) ==
  IF k > Len(stops) THEN acc
  ELSE get_incomplete_stops_from(stops, k + 1,
         IF is_incomplete(stops[k]) THEN Append(acc, stops[k]) ELSE acc)

get_incomplete_stops(stops) == get_incomplete_stops_from(stops, 1, <<>>)

\* The orchestrators' test of a stop's phone number (if not phone_number: ...).
has_phone_always(stop) == TRUE

has_phone(stop) == stop.phone /= NoPhone

\* ------------------------------------------------------- the SMS client
Digits == {"0", "1", "2", "3", "4", "5", "6", "7", "8", "9"}

IsDigit(c) == c \in Digits

\* _format_phone_number as it would be without the re.sub.
format_phone_number_keeps_separators(phone_number) ==
  IF Len(phone_number) = 10 THEN <<"+", "1">> \o phone_number
  ELSE <<"+">> \o phone_number

\* _format_phone_number as it would be if it put the country code before
\* every number that is not eleven digits beginning with 1.
format_phone_number_always_adds_country_code(phone_number) ==
  LET digits_only == SelectSeq(phone_number, IsDigit)
  IN IF Len(digits_only) = 11 /\ Head(digits_only) = "1" THEN <<"+">> \o digits_only
     ELSE <<"+", "1">> \o digits_only

\* TwilioSMSClient._format_phone_number: re.sub(r'\D', '', phone_number), then
\* the country code.
format_phone_number(phone_number) ==
  LET digits_only == SelectSeq(phone_number, IsDigit)
  IN IF Len(digits_only) = 10 THEN <<"+", "1">> \o digits_only
     ELSE IF Len(digits_only) = 11 /\ Head(digits_only) = "1" THEN <<"+">> \o digits_only
     ELSE <<"+">> \o digits_only

\* phone_number[-4:]
Last4(phone_number) ==
  SubSeq(phone_number,
         IF Len(phone_number) > 4 THEN Len(phone_number) - 3 ELSE 1,
         Len(phone_number))

\* message.sid of the n-th message the provider accepted or was asked for.
Sid(n) == "SM" \o ToString(n)

\* send_message as it would be if the dict of a failure carried a message sid.
send_message_failure_with_sid(to_number, outcome, n) ==
  IF outcome = "ok"
  THEN [success |-> TRUE, message_sid |-> Sid(n), status |-> "queued",
        to |-> format_phone_number(to_number)]
  ELSE [success |-> FALSE, message_sid |-> Sid(n), error |-> "TwilioException",
        to |-> to_number]

\* TwilioSMSClient.send_message, given what messages.create does: the result
\* dict it returns. (With "other_exception" nothing is returned: the exception
\* leaves send_message, whose except clause names TwilioException only.)
send_message(to_number, outcome, n) ==
  IF outcome = "ok"
  THEN [success |-> TRUE, message_sid |-> Sid(n), status |-> "queued",
        to |-> format_phone_number(to_number)]
  ELSE [success |-> FALSE,
        error |-> IF outcome = "rate_limited" THEN "TwilioException: Too Many Requests"
                  ELSE "TwilioException",
        to |-> to_number]

\* ------------------------------------------------- the route-data client
\* Backend calls that may run concurrently (requests of concurrent invocations).
Callers == {"a", "b"}

NoCaller == "-"

\* self.access_token = None
NoToken == ""

\* The last instant of the model's clock.
MaxTime == 5

\* expiresInSeconds of the backend's authenticate response, in time units.
TokenLifetime == 3

\* The margin before expiry within which the token counts as expiring soon.
SafetyMargin == 1

\* MAX_RETRIES and RETRY_DELAY of the application configuration.
MAX_RETRIES_off_by_one == 3 + 1

MAX_RETRIES == 3

RETRY_DELAY == 1

\* The cap of the backoff delay.
RetryDelayCap == 3

Min(a, b) == IF a <= b THEN a ELSE b

\* EasyRoutesClient.authenticate, given the response: the token and its expiry,
\* datetime.now() + timedelta(seconds=response["expiresInSeconds"]).
authenticate_forgets_lifetime(t, expiresInSeconds) ==
  [access_token |-> "token", token_expires_at |-> t]

authenticate(t, expiresInSeconds) ==
  [access_token |-> "token", token_expires_at |-> t + expiresInSeconds]

\* The test of _ensure_authenticated: no token, or one that expires within
\* the safety margin.
needs_authentication(token, expires_at, t) ==
  token = NoToken \/ expires_at - t <= SafetyMargin

\* The delay before attempt k (attempts count from 0): base * 2^k, capped.
backoff_delay(k) == Min(RetryDelayCap, RETRY_DELAY * 2^k)

\* A backend call that has not started.
IdleCall ==
  [pc |-> "idle", attempt |-> 0, unauthorized |-> 0, client_errors |-> 0,
   delay |-> 0, wake_at |-> 0, result |-> "none"]

\* ------------------------------------------------------------------ state
VARIABLES
  pipeline,     \* "none" | "cli" (process_routes) | "web" (send_sms)
  pc,           \* "idle" | "lookup" | "authenticated" | "dispatching" | "done"
  dry_run,      \* config.dry_run of the command-line run
  stops,        \* route.stops as fetched from the backend
  incomplete,   \* the incomplete stops the loop iterates over
  i,            \* position of the loop in incomplete (1-based; Len+1 when over)
  results,      \* send_messages_to_stops' results dict
  cli_results,  \* process_routes' results list
  response,     \* what the invocation gave back: HTTP status / exit code
  sendLog,      \* every call of messages.create so far: stop, number, what
  session,      \* the web app's session: [authenticated |-> ...]
  message,      \* len(message) of the request send_sms is handling
                \* the provider did, and when the call was made
  now,              \* datetime.now(), in time units
  access_token,     \* EasyRoutesClient.access_token
  token_expires_at, \* EasyRoutesClient.token_expires_at
  refreshing,       \* the caller whose authenticate() is in flight, or NoCaller
  call,             \* per concurrent backend call: where it stands
  backend_stops,    \* the stops of the route as the backend holds them now
  preview,          \* SMSForm's preview state: the last preview received
  showPreview,      \* SMSForm's showPreview state
  error,            \* SMSForm's error state
  previews_since_change, \* previews received since the backend last changed
  loading,          \* SMSForm's loading state
  form_results,     \* SMSForm's results state: the results of the last send
  requests,         \* the form's fetch calls in flight: kind, and which send
  sends,            \* the sends the operator has submitted so far
  phone,            \* the last phone number given to the SMS client, formatted
  rendering,        \* the last template rendering: template, variables, result
  status_message    \* the last lookup of a delivery status' phrase

\* What the web app holds of its operator: the session and the request.
request_vars == <<session, message>>

pipeline_vars == <<pipeline, pc, dry_run, stops, incomplete, i, results, cli_results,
                   response, sendLog, request_vars>>

auth_vars == <<now, access_token, token_expires_at, refreshing, call>>

preview_vars == <<backend_stops, preview, showPreview, error, previews_since_change>>

\* The state of the operations beside the pipeline and the backend calls.
\* What the SMS client and the templates were last asked.
text_vars == <<phone, rendering, status_message>>

\* SMSForm's state around a request.
form_vars == <<loading, form_results, requests, sends>>

side_vars == <<preview_vars, form_vars, text_vars>>

vars == <<pipeline_vars, auth_vars, side_vars>>

NoResults == [total_stops |-> 0, messages_sent |-> 0, failures |-> 0, details |-> <<>>]
\* No response yet.
NoResponse == [status |-> -1]

\* The web handler's length limit on the message (len(message) > 160).
MaxMessageLength == 160

\* Lengths of the message the operator submits: empty, at and over the limit.
MessageLengths == {0, MaxMessageLength, MaxMessageLength + 1}

\* session.get('authenticated') of a session that never logged in, or was cleared.
NoSession == [authenticated |-> FALSE]

\* useState(null) of SMSForm's preview.
NoPreview == [received |-> FALSE]

\* useState(null) of SMSForm's results.
NoFormResults == [received |-> FALSE]

\* No phone number has been given to the SMS client yet.
NoPhoneCall == [given |-> FALSE]

\* No template has been rendered yet.
NoRendering == [done |-> FALSE]

\* No delivery status has been looked up yet.
NoLookup == [asked |-> FALSE]

Init ==
  /\ pipeline = "none"
  /\ pc = "idle"
  /\ dry_run = FALSE
  /\ stops = <<>>
  /\ incomplete = <<>>
  /\ i = 1
  /\ results = NoResults
  /\ cli_results = <<>>
  /\ response = NoResponse
  /\ sendLog = <<>>
  /\ session = NoSession
  /\ message = 0
  /\ now = 0
  /\ access_token = NoToken
  /\ token_expires_at = 0
  /\ refreshing = NoCaller
  /\ call = [c \in Callers |-> IdleCall]
  /\ backend_stops = <<>>
  /\ preview = NoPreview
  /\ showPreview = FALSE
  /\ error = ""
  /\ previews_since_change = 0
  /\ loading = FALSE
  /\ form_results = NoFormResults
  /\ requests = <<>>
  /\ sends = 0
  /\ phone = NoPhoneCall
  /\ rendering = NoRendering
  /\ status_message = NoLookup

\* ------------------------------------------------- the web handler, send_sms
\* The model follows one program: the web app, once its operator acts on it,
\* or one run of the command line.
\* require_auth's test as it would be if every session passed it.
is_authenticated_always == TRUE

\* require_auth's test: session.get('authenticated').
is_authenticated == session.authenticated

\* login: the admin password sets session['authenticated']; any other
\* password is answered with 401 and leaves the session as it was.
login(password_ok) ==
  /\ pc = "idle" /\ pipeline \in {"none", "web"}
  /\ pipeline' = "web"
  /\ session' = IF password_ok THEN [authenticated |-> TRUE] ELSE session
  /\ UNCHANGED <<auth_vars, side_vars, message, pc, dry_run, stops, incomplete, i, results,
                 cli_results, response, sendLog>>

\* logout: session.clear().
logout ==
  /\ pc = "idle" /\ pipeline \in {"none", "web"}
  /\ pipeline' = "web"
  /\ session' = NoSession
  /\ UNCHANGED <<auth_vars, side_vars, message, pc, dry_run, stops, incomplete, i, results,
                 cli_results, response, sendLog>>

\* require_auth around send_sms, for a session that is not authenticated:
\* 401, and send_sms is not called.
require_auth_rejects ==
  /\ pc = "idle" /\ pipeline \in {"none", "web"}
  /\ ~is_authenticated
  /\ pipeline' = "web"
  /\ response' = [status |-> 401, error |-> "Authentication required"]
  /\ pc' = "done"
  /\ UNCHANGED <<auth_vars, side_vars, request_vars, dry_run, stops, incomplete, i, results,
                 cli_results, sendLog>>

\* send_sms_validate as it would be without the check of the length.
send_sms_validate_any_length(route_number_given, message_len) ==
  /\ pc = "idle" /\ pipeline \in {"none", "web"}
  /\ is_authenticated
  /\ pipeline' = "web"
  /\ message' = message_len
  /\ IF ~route_number_given \/ message_len = 0
     THEN /\ response' = [status |-> 400, error |-> "Route number and message are required"]
          /\ pc' = "done"
     ELSE /\ response' = response
          /\ pc' = "lookup"
  /\ UNCHANGED <<auth_vars, side_vars, session, dry_run, stops, incomplete, i, results, cli_results, sendLog>>

\* send_sms up to the clients, for a session require_auth lets through: the
\* two input checks, each answered with 400.
send_sms_validate(route_number_given, message_len) ==
  /\ pc = "idle" /\ pipeline \in {"none", "web"}
  /\ is_authenticated
  /\ pipeline' = "web"
  /\ message' = message_len
  /\ IF ~route_number_given \/ message_len = 0
     THEN /\ response' = [status |-> 400, error |-> "Route number and message are required"]
          /\ pc' = "done"
     ELSE IF message_len > MaxMessageLength
     THEN /\ response' = [status |-> 400, error |-> "Message too long (max 160 characters)"]
          /\ pc' = "done"
     ELSE /\ response' = response
          /\ pc' = "lookup"
  /\ UNCHANGED <<auth_vars, side_vars, session, dry_run, stops, incomplete, i, results, cli_results, sendLog>>

\* The route-data client's call starts with await self._ensure_authenticated():
\* when that returns, the client holds a token and the request goes out. (Its
\* steps under concurrent calls are the backend calls below.)
client_ensure_authenticated ==
  /\ pc = "lookup"
  /\ pc' = "authenticated"
  /\ UNCHANGED <<auth_vars, side_vars, request_vars, pipeline, dry_run, stops, incomplete, i, results,
                 cli_results, response, sendLog>>

\* get_route_by_number returns nothing: 404.
send_sms_not_found ==
  /\ pc = "authenticated" /\ pipeline = "web"
  /\ response' = [status |-> 404, error |-> "Route not found"]
  /\ pc' = "done"
  /\ UNCHANGED <<auth_vars, side_vars, request_vars, pipeline, dry_run, stops, incomplete, i, results, cli_results, sendLog>>

\* get_route_by_number or get_incomplete_stops raises: the handler's
\* except Exception answers 500.
send_sms_backend_error ==
  /\ pc \in {"lookup", "authenticated"} /\ pipeline = "web"
  /\ response' = [status |-> 500, error |-> "Exception"]
  /\ pc' = "done"
  /\ UNCHANGED <<auth_vars, side_vars, request_vars, pipeline, dry_run, stops, incomplete, i, results, cli_results, sendLog>>

\* The route is found and get_incomplete_stops(route['id']) filters its stops.
\* Without incomplete stops the handler answers at once; otherwise
\* send_messages_to_stops starts with its results dict.
send_sms_fetch ==
  /\ pc = "authenticated" /\ pipeline = "web"
  /\ \E route_stops \in RouteStops :
       /\ stops' = route_stops
       /\ incomplete' = get_incomplete_stops(route_stops)
  /\ i' = 1
  /\ IF incomplete' = <<>>
     THEN /\ response' = [status |-> 200, success |-> TRUE,
                          message |-> "No incomplete stops found for this route",
                          results |-> [total_stops |-> 0, messages_sent |-> 0,
                                       failures |-> 0, details |-> <<>>]]
          /\ results' = results
          /\ pc' = "done"
     ELSE /\ results' = [total_stops |-> Len(incomplete'), messages_sent |-> 0,
                         failures |-> 0, details |-> <<>>]
          /\ response' = response
          /\ pc' = "dispatching"
  /\ UNCHANGED <<auth_vars, side_vars, request_vars, pipeline, dry_run, cli_results, sendLog>>

\* send_messages_to_stops_no_phone as it would be if it skipped the stop the
\* way process_routes does, recording nothing.
send_messages_to_stops_no_phone_skips ==
  /\ pc = "dispatching" /\ pipeline = "web" /\ i <= Len(incomplete)
  /\ ~has_phone(incomplete[i])
  /\ i' = i + 1
  /\ UNCHANGED <<auth_vars, side_vars, request_vars, pipeline, pc, dry_run, stops, incomplete, results, cli_results,
                 response, sendLog>>

\* send_messages_to_stops_no_phone as it would be if it recorded the failed
\* detail without counting it.
send_messages_to_stops_no_phone_uncounted ==
  /\ pc = "dispatching" /\ pipeline = "web" /\ i <= Len(incomplete)
  /\ ~has_phone(incomplete[i])
  /\ results' = [results EXCEPT
        !.details = Append(@, [stop_id |-> incomplete[i].id, status |-> "failed",
                               error |-> "No phone number", phone |-> None])]
  /\ i' = i + 1
  /\ UNCHANGED <<auth_vars, side_vars, request_vars, pipeline, pc, dry_run, stops, incomplete, cli_results, response, sendLog>>

\* One iteration of send_messages_to_stops' loop over a stop without a phone
\* number: a failed detail, no call of the client.
send_messages_to_stops_no_phone ==
  /\ pc = "dispatching" /\ pipeline = "web" /\ i <= Len(incomplete)
  /\ ~has_phone(incomplete[i])
  /\ results' = [results EXCEPT
        !.details = Append(@, [stop_id |-> incomplete[i].id, status |-> "failed",
                               error |-> "No phone number", phone |-> None]),
        !.failures = @ + 1]
  /\ i' = i + 1
  /\ UNCHANGED <<auth_vars, side_vars, request_vars, pipeline, pc, dry_run, stops, incomplete, cli_results, response, sendLog>>

\* send_messages_to_stops_send as it would be if the loop did not await one
\* send before starting the next: the stop at hand and the one after it are
\* sent to together, and both outcomes are recorded afterwards.
send_messages_to_stops_send_concurrently(outcome) ==
  /\ pc = "dispatching" /\ pipeline = "web" /\ i <= Len(incomplete)
  /\ has_phone(incomplete[i])
  /\ LET both == i + 1 <= Len(incomplete) /\ has_phone(incomplete[i + 1])
         sent == IF both THEN <<incomplete[i], incomplete[i + 1]>> ELSE <<incomplete[i]>>
     IN /\ sendLog' = sendLog \o
             [k \in DOMAIN sent |->
                [stop_id |-> sent[k].id, to |-> format_phone_number(sent[k].phone),
                 outcome |-> outcome, at |-> now, body |-> message]]
        /\ results' = [results EXCEPT
             !.details = @ \o
               [k \in DOMAIN sent |->
                  IF outcome = "ok"
                  THEN [stop_id |-> sent[k].id, status |-> "sent",
                        phone |-> Last4(sent[k].phone),
                        message_sid |-> Sid(Len(sendLog) + k)]
                  ELSE [stop_id |-> sent[k].id, status |-> "failed",
                        error |-> "Exception", phone |-> Last4(sent[k].phone)]],
             !.messages_sent = IF outcome = "ok" THEN @ + Len(sent) ELSE @,
             !.failures = IF outcome = "ok" THEN @ ELSE @ + Len(sent)]
        /\ i' = i + Len(sent)
  /\ UNCHANGED <<auth_vars, side_vars, request_vars, pipeline, pc, dry_run, stops, incomplete, cli_results, response>>

\* One iteration of send_messages_to_stops' loop over a stop with a phone
\* number: the send, and the detail for its result or its exception.
send_messages_to_stops_send(outcome) ==
  /\ pc = "dispatching" /\ pipeline = "web" /\ i <= Len(incomplete)
  /\ has_phone(incomplete[i])
  /\ LET stop == incomplete[i]
         phone_number == stop.phone
         sms_result == send_message(phone_number, outcome, Len(sendLog) + 1)
     IN /\ sendLog' = Append(sendLog, [stop_id |-> stop.id,
                                       to |-> format_phone_number(phone_number),
                                       outcome |-> outcome, at |-> now,
                                       body |-> message])
        /\ results' =
             IF outcome = "other_exception"
             THEN [results EXCEPT
                     !.details = Append(@, [stop_id |-> stop.id, status |-> "failed",
                                            error |-> "Exception",
                                            phone |-> Last4(phone_number)]),
                     !.failures = @ + 1]
             ELSE IF sms_result.success
             THEN [results EXCEPT
                     !.details = Append(@, [stop_id |-> stop.id, status |-> "sent",
                                            phone |-> Last4(phone_number),
                                            message_sid |-> sms_result.message_sid]),
                     !.messages_sent = @ + 1]
             ELSE [results EXCEPT
                     !.details = Append(@, [stop_id |-> stop.id, status |-> "failed",
                                            error |-> sms_result.error,
                                            phone |-> Last4(phone_number)]),
                     !.failures = @ + 1]
  /\ i' = i + 1
  /\ UNCHANGED <<auth_vars, side_vars, request_vars, pipeline, pc, dry_run, stops, incomplete, cli_results, response>>

\* send_messages_to_stops returns and send_sms answers with its results.
send_sms_return ==
  /\ pc = "dispatching" /\ pipeline = "web" /\ i > Len(incomplete)
  /\ response' = [status |-> 200, success |-> TRUE, results |-> results]
  /\ pc' = "done"
  /\ UNCHANGED <<auth_vars, side_vars, request_vars, pipeline, dry_run, stops, incomplete, i, results, cli_results, sendLog>>

\* --------------------------------------- the command line, process_routes
\* main() up to process_routes: the configuration is loaded.
process_routes_start(dry) ==
  /\ pc = "idle" /\ pipeline = "none"
  /\ pipeline' = "cli"
  /\ dry_run' = dry
  /\ pc' = "lookup"
  /\ UNCHANGED <<auth_vars, side_vars, request_vars, stops, incomplete, i, results, cli_results, response, sendLog>>

\* get_routes raises: main's except logs and exits with 1.
process_routes_get_routes_error ==
  /\ pc \in {"lookup", "authenticated"} /\ pipeline = "cli"
  /\ response' = [status |-> 1, error |-> "BackendError"]
  /\ pc' = "done"
  /\ UNCHANGED <<auth_vars, side_vars, request_vars, pipeline, dry_run, stops, incomplete, i, results, cli_results, sendLog>>

\* process_routes_fetch as it would be if get_routes sent its request without
\* authenticating first.
process_routes_fetch_unauthenticated ==
  /\ pc \in {"lookup", "authenticated"} /\ pipeline = "cli"
  /\ \E route_stops \in RouteStops :
       /\ stops' = route_stops
       /\ incomplete' = incomplete_stops(route_stops)
  /\ i' = 1
  /\ pc' = "dispatching"
  /\ UNCHANGED <<auth_vars, side_vars, request_vars, pipeline, dry_run, results, cli_results, response, sendLog>>

\* get_routes answers; the loop over route.incomplete_stops starts. (The model
\* follows one route of the response; the body repeats for each.)
process_routes_fetch ==
  /\ pc = "authenticated" /\ pipeline = "cli"
  /\ \E route_stops \in RouteStops :
       /\ stops' = route_stops
       /\ incomplete' = incomplete_stops(route_stops)
  /\ i' = 1
  /\ pc' = "dispatching"
  /\ UNCHANGED <<auth_vars, side_vars, request_vars, pipeline, dry_run, results, cli_results, response, sendLog>>

\* A stop without a phone number: a warning, and continue.
process_routes_no_phone ==
  /\ pc = "dispatching" /\ pipeline = "cli" /\ i <= Len(incomplete)
  /\ ~has_phone(incomplete[i])
  /\ i' = i + 1
  /\ UNCHANGED <<auth_vars, side_vars, request_vars, pipeline, pc, dry_run, stops, incomplete, results, cli_results,
                 response, sendLog>>

\* templates.render raises for the stop at hand (TemplateError: the message
\* rendered with this stop's name and address is over the maximum length):
\* nothing in the loop catches it, and main's except exits with 1.
process_routes_render_error ==
  /\ pc = "dispatching" /\ pipeline = "cli" /\ i <= Len(incomplete)
  /\ has_phone(incomplete[i])
  /\ response' = [status |-> 1, error |-> "TemplateError"]
  /\ pc' = "done"
  /\ UNCHANGED <<auth_vars, side_vars, request_vars, pipeline, dry_run, stops, incomplete, i, results, cli_results, sendLog>>

\* A stop with a phone number in dry-run mode: the message is logged.
process_routes_dry_run ==
  /\ pc = "dispatching" /\ pipeline = "cli" /\ i <= Len(incomplete)
  /\ has_phone(incomplete[i])
  /\ dry_run
  /\ i' = i + 1
  /\ UNCHANGED <<auth_vars, side_vars, request_vars, pipeline, pc, dry_run, stops, incomplete, results, cli_results,
                 response, sendLog>>

\* process_routes_send as it would be if the send did not depend on dry_run.
process_routes_send_ignores_dry_run(outcome) ==
  /\ pc = "dispatching" /\ pipeline = "cli" /\ i <= Len(incomplete)
  /\ has_phone(incomplete[i])
  /\ sendLog' = Append(sendLog, [stop_id |-> incomplete[i].id,
                                 to |-> format_phone_number(incomplete[i].phone),
                                 outcome |-> outcome, at |-> now])
  /\ IF outcome = "other_exception"
     THEN /\ response' = [status |-> 1, error |-> "Exception"]
          /\ pc' = "done"
          /\ UNCHANGED <<i, cli_results, now>>
     ELSE /\ cli_results' = Append(cli_results,
                 send_message(incomplete[i].phone, outcome, Len(sendLog) + 1))
          /\ i' = i + 1
          /\ now' = now + RATE_LIMIT_DELAY
          /\ UNCHANGED <<pc, response>>
  /\ UNCHANGED <<access_token, token_expires_at, refreshing, call, side_vars>>
  /\ UNCHANGED <<pipeline, dry_run, stops, incomplete, results, request_vars>>

\* A stop with a phone number: the send. Its result is appended; an exception
\* that is no TwilioException leaves send_message and process_routes, and
\* main's except exits with 1.
process_routes_send(outcome) ==
  /\ pc = "dispatching" /\ pipeline = "cli" /\ i <= Len(incomplete)
  /\ has_phone(incomplete[i])
  /\ ~dry_run
  /\ sendLog' = Append(sendLog, [stop_id |-> incomplete[i].id,
                                 to |-> format_phone_number(incomplete[i].phone),
                                 outcome |-> outcome, at |-> now])
  /\ IF outcome = "other_exception"
     THEN /\ response' = [status |-> 1, error |-> "Exception"]
          /\ pc' = "done"
          /\ UNCHANGED <<i, cli_results, now>>
     ELSE /\ cli_results' = Append(cli_results,
                 send_message(incomplete[i].phone, outcome, Len(sendLog) + 1))
          /\ i' = i + 1
          /\ now' = now + RATE_LIMIT_DELAY
          /\ UNCHANGED <<pc, response>>
  /\ UNCHANGED <<access_token, token_expires_at, refreshing, call, side_vars>>
  /\ UNCHANGED <<pipeline, dry_run, stops, incomplete, results, request_vars>>

\* The loops are over: process_routes returns results and main reports them.
process_routes_return ==
  /\ pc = "dispatching" /\ pipeline = "cli" /\ i > Len(incomplete)
  /\ response' = [status |-> 0, results |-> cli_results]
  /\ pc' = "done"
  /\ UNCHANGED <<auth_vars, side_vars, request_vars, pipeline, dry_run, stops, incomplete, i, results, cli_results, sendLog>>

\* ------------------------------------- the route-data client's backend calls
\* A caller starts a backend call (get_routes, get_route).
get_routes_start(c) ==
  /\ call[c].pc \in {"idle", "done"}
  /\ call' = [call EXCEPT ![c] = [IdleCall EXCEPT !.pc = "ensure"]]
  /\ UNCHANGED <<pipeline_vars, side_vars, now, access_token, token_expires_at, refreshing>>

\* _ensure_authenticated without the in-flight check: every caller that finds
\* no valid token authenticates on its own.
ensure_authenticated_no_single_flight(c) ==
  /\ call[c].pc = "ensure"
  /\ IF needs_authentication(access_token, token_expires_at, now)
     THEN /\ refreshing' = c
          /\ call' = [call EXCEPT ![c].pc = "authenticating"]
     ELSE /\ call' = [call EXCEPT ![c].pc = "request"]
          /\ UNCHANGED refreshing
  /\ UNCHANGED <<pipeline_vars, side_vars, now, access_token, token_expires_at>>

\* await self._ensure_authenticated(), then the request of _get: with a token
\* valid beyond the margin the request is sent; without one the caller awaits
\* the refresh in flight, or starts it with authenticate().
ensure_authenticated(c) ==
  /\ call[c].pc = "ensure"
  /\ IF ~needs_authentication(access_token, token_expires_at, now)
     THEN /\ call' = [call EXCEPT ![c].pc = "request"]
          /\ UNCHANGED refreshing
     ELSE IF refreshing /= NoCaller
     THEN /\ call' = [call EXCEPT ![c].pc = "waiting"]
          /\ UNCHANGED refreshing
     ELSE /\ refreshing' = c
          /\ call' = [call EXCEPT ![c].pc = "authenticating"]
  /\ UNCHANGED <<pipeline_vars, side_vars, now, access_token, token_expires_at>>

\* authenticate() gets its response: the token and its expiry are stored, and
\* the caller and every caller awaiting this refresh send their requests.
authenticate_ok(c) ==
  /\ call[c].pc = "authenticating"
  /\ LET stored == authenticate(now, TokenLifetime)
     IN /\ access_token' = stored.access_token
        /\ token_expires_at' = stored.token_expires_at
  /\ refreshing' = IF refreshing = c THEN NoCaller ELSE refreshing
  /\ call' = [d \in Callers |->
               IF d = c \/ (refreshing = c /\ call[d].pc = "waiting")
               THEN [call[d] EXCEPT !.pc = "request"]
               ELSE call[d]]
  /\ UNCHANGED <<pipeline_vars, side_vars, now>>

\* authenticate() fails (bad credentials, network): AuthError, for the caller
\* and every caller awaiting this refresh.
authenticate_fail(c) ==
  /\ call[c].pc = "authenticating"
  /\ refreshing' = IF refreshing = c THEN NoCaller ELSE refreshing
  /\ call' = [d \in Callers |->
               IF d = c \/ (refreshing = c /\ call[d].pc = "waiting")
               THEN [call[d] EXCEPT !.pc = "done", !.result = "AuthError"]
               ELSE call[d]]
  /\ UNCHANGED <<pipeline_vars, side_vars, now, access_token, token_expires_at>>

\* The backend answers the data request.
response_ok(c) ==
  /\ call[c].pc = "request"
  /\ call' = [call EXCEPT ![c].pc = "done", ![c].result = "ok"]
  /\ UNCHANGED <<pipeline_vars, side_vars, now, access_token, token_expires_at, refreshing>>

\* response_unauthorized without the limit of one re-authentication.
response_unauthorized_always_retries(c) ==
  /\ call[c].pc = "request"
  /\ call[c].unauthorized < 3
  /\ access_token' = NoToken
  /\ call' = [call EXCEPT ![c].unauthorized = @ + 1, ![c].pc = "ensure"]
  /\ UNCHANGED <<pipeline_vars, side_vars, now, token_expires_at, refreshing>>

\* 401/403: the token is discarded; the first time the call re-authenticates
\* and retries, the second time the error is surfaced.
response_unauthorized(c) ==
  /\ call[c].pc = "request"
  /\ access_token' = NoToken
  /\ call' = [call EXCEPT
       ![c].unauthorized = @ + 1,
       ![c].pc = IF call[c].unauthorized = 0 THEN "ensure" ELSE "done",
       ![c].result = IF call[c].unauthorized = 0 THEN @ ELSE "AuthError"]
  /\ UNCHANGED <<pipeline_vars, side_vars, now, token_expires_at, refreshing>>

\* A 4xx other than 401/403: ClientError at once.
response_client_error(c) ==
  /\ call[c].pc = "request"
  /\ call' = [call EXCEPT ![c].client_errors = @ + 1, ![c].pc = "done",
                          ![c].result = "ClientError"]
  /\ UNCHANGED <<pipeline_vars, side_vars, now, access_token, token_expires_at, refreshing>>

\* A network failure, timeout or 5xx: after MAX_RETRIES attempts
\* BackendUnavailableError, before that the backoff.
response_transient(c) ==
  /\ call[c].pc = "request"
  /\ LET failed == call[c].attempt + 1
     IN call' = [call EXCEPT
          ![c].attempt = failed,
          ![c].pc = IF failed >= MAX_RETRIES THEN "done" ELSE "backoff",
          ![c].result = IF failed >= MAX_RETRIES THEN "BackendUnavailableError" ELSE @,
          ![c].delay = IF failed >= MAX_RETRIES THEN @ ELSE backoff_delay(failed),
          ![c].wake_at = IF failed >= MAX_RETRIES THEN @ ELSE now + backoff_delay(failed)]
  /\ UNCHANGED <<pipeline_vars, side_vars, now, access_token, token_expires_at, refreshing>>

\* The backoff sleep is over: the next attempt starts, again through
\* _ensure_authenticated.
backoff_over(c) ==
  /\ call[c].pc = "backoff"
  /\ now >= call[c].wake_at
  /\ call' = [call EXCEPT ![c].pc = "ensure"]
  /\ UNCHANGED <<pipeline_vars, side_vars, now, access_token, token_expires_at, refreshing>>

\* Time passes.
Tick ==
  /\ now < MaxTime
  /\ now' = now + 1
  /\ UNCHANGED <<pipeline_vars, side_vars, access_token, token_expires_at, refreshing, call>>

\* ------------------------------------------- phone numbers given to the client
\* The most digits of a phone number in the model.
MaxDigits == 12

\* The digits that follow the first one in the numbers of the model.
NextDigits == <<"5", "5", "5", "1", "2", "3", "4", "5", "6", "7", "8", "9">>

\* The number of n digits that begins with lead: 15551234567 for "1" and 11.
DigitString(lead, n) ==
  [k \in 1..n |-> IF k = 1 THEN lead ELSE NextDigits[((k - 2) % Len(NextDigits)) + 1]]

\* Ways a contact's phone number is written.
PhoneStyles == {"plain", "plus", "dashes", "parens"}

RECURSIVE Dashed(_)
Dashed(digits) ==
  IF Len(digits) <= 3 THEN digits
  ELSE SubSeq(digits, 1, 3) \o <<"-">> \o Dashed(SubSeq(digits, 4, Len(digits)))

\* The digits as the contact's phone string: 15551234567, +15551234567,
\* 155-512-345-67, (155) 51234567.
Written(digits, style) ==
  CASE style = "plain" -> digits
    [] style = "plus" -> <<"+">> \o digits
    [] style = "dashes" -> Dashed(digits)
    [] style = "parens" ->
         IF Len(digits) <= 3 THEN <<"(">> \o digits \o <<")">>
         ELSE <<"(">> \o SubSeq(digits, 1, 3) \o <<")", " ">> \o SubSeq(digits, 4, Len(digits))

\* A phone number reaches the SMS client: send_message formats it; formatting
\* the formatted number again, and the last four characters of the number as
\* the web results keep them, are recorded next to it.
format_phone_number_applied(lead, n, style) ==
  /\ LET digits == DigitString(lead, n)
         phone_number == Written(digits, style)
     IN phone' = [given |-> TRUE, digits |-> digits, phone_number |-> phone_number,
                  formatted |-> format_phone_number(phone_number),
                  reformatted |-> format_phone_number(format_phone_number(phone_number)),
                  masked |-> Last4(phone_number)]
  /\ UNCHANGED <<pipeline_vars, auth_vars, preview_vars, form_vars, rendering, status_message>>

\* --------------------------------------------------- the template renderer
\* The template variables the configuration lists for message bodies.
RecognizedKeys ==
  {"customer_name", "address", "status_message", "route_name", "driver_name",
   "estimated_time", "tracking_number", "contact_phone", "company_name"}

\* The placeholders of a template body, in order. Every template of the
\* configuration (default, urgent, friendly, professional, retry) has these.
ConfiguredTemplate == <<"customer_name", "address", "status_message">>

\* The templates rendered in the model: the configured one, and bodies with
\* one recognized variable, alone or after {customer_name}.
Templates ==
  {ConfiguredTemplate} \cup {<<k>> : k \in RecognizedKeys}
    \cup {<<"customer_name", k>> : k \in RecognizedKeys \ {"customer_name"}}

\* The variable maps given to render, by the keys they hold.
VariableMaps == SUBSET {"customer_name", "address", "status_message", "route_name"}

\* The value a map holds for a key.
Value(key) == "<" \o key \o ">"

\* The settings as they would be with the customer name's fallback only.
Fallbacks_customer_name_only == [customer_name |-> "Valued Customer"]

\* settings.fallback_customer_name and settings.fallback_address: the
\* fallbacks the configuration defines.
Fallbacks == [customer_name |-> "Valued Customer", address |-> "your location"]

\* What happens to a placeholder that is neither in the map nor has a
\* fallback in the settings: the renderer raises, or leaves it blank.
Unconfigured == {"raise", "blank"}

\* templates.render: each placeholder is replaced by the map's value or, when
\* the map has none, by the fallback of the settings.
render(template, variables, unconfigured) ==
  LET without == {j \in DOMAIN template :
                    template[j] \notin variables /\ template[j] \notin DOMAIN Fallbacks}
  IN IF without /= {} /\ unconfigured = "raise"
     THEN [ok |-> FALSE, error |-> "KeyError"]
     ELSE [ok |-> TRUE,
           values |-> [j \in DOMAIN template |->
                        IF template[j] \in variables THEN Value(template[j])
                        ELSE IF template[j] \in DOMAIN Fallbacks THEN Fallbacks[template[j]]
                        ELSE ""]]

\* A template is rendered with a variable map.
render_called(template, variables, unconfigured) ==
  /\ rendering' = [done |-> TRUE, template |-> template, variables |-> variables,
                    result |-> render(template, variables, unconfigured)]
  /\ UNCHANGED <<pipeline_vars, auth_vars, preview_vars, form_vars, phone, status_message>>

\* status_messages as it would be without the entry for UNKNOWN.
status_messages_without_unknown ==
  [status \in {"OUT_FOR_DELIVERY", "ATTEMPTED_DELIVERY", "READY_FOR_DELIVERY"} |->
     CASE status = "OUT_FOR_DELIVERY" -> "out for delivery"
       [] status = "ATTEMPTED_DELIVERY" -> "attempted - we'll try again"
       [] status = "READY_FOR_DELIVERY" -> "ready for delivery"]

\* status_messages of config/message_templates.yaml: the phrase of each
\* delivery status that has one.
status_messages ==
  [status \in {"UNKNOWN", "OUT_FOR_DELIVERY", "ATTEMPTED_DELIVERY", "READY_FOR_DELIVERY"} |->
     CASE status = "UNKNOWN" -> "being processed"
       [] status = "OUT_FOR_DELIVERY" -> "out for delivery"
       [] status = "ATTEMPTED_DELIVERY" -> "attempted - we'll try again"
       [] status = "READY_FOR_DELIVERY" -> "ready for delivery"]

\* templates.get_status_message(delivery_status): the entry of the status in
\* status_messages, when it has one.
get_status_message(delivery_status) ==
  IF delivery_status \in DOMAIN status_messages
  THEN [found |-> TRUE, phrase |-> status_messages[delivery_status]]
  ELSE [found |-> FALSE]

\* The phrase of a delivery status is looked up.
get_status_message_called(delivery_status) ==
  /\ status_message' = [asked |-> TRUE, delivery_status |-> delivery_status,
                         result |-> get_status_message(delivery_status)]
  /\ UNCHANGED <<pipeline_vars, auth_vars, preview_vars, form_vars, phone, rendering>>

\* ------------------------------------------------------ the route preview
\* The most previews of one backend state the model follows.
MaxPreviews == 2

\* What POST /api/sms/preview answers for a route: the counts and the list of
\* incomplete stops SMSForm displays (route_summary.total_stops,
\* total_incomplete, valid_phone_numbers, will_receive_sms, incomplete_stops).
preview_route(route_stops) ==
  LET incomplete_now == get_incomplete_stops(route_stops)
      with_phone == Len(SelectSeq(incomplete_now, has_phone))
  IN [received |-> TRUE,
      route_summary |-> [total_stops |-> Len(route_stops)],
      total_incomplete |-> Len(incomplete_now),
      valid_phone_numbers |-> with_phone,
      will_receive_sms |-> with_phone,
      incomplete_stops |->
        [k \in DOMAIN incomplete_now |->
           [stop_id |-> incomplete_now[k].id,
            has_phone |-> has_phone(incomplete_now[k]),
            delivery_status |-> incomplete_now[k].deliveryStatus]]]

\* The backend gets the route the operator will ask for.
backend_route_created ==
  /\ backend_stops = <<>> /\ preview = NoPreview
  /\ \E route_stops \in RouteStops :
       /\ Len(route_stops) >= 1
       /\ backend_stops' = route_stops
  /\ previews_since_change' = 0
  /\ UNCHANGED <<pipeline_vars, auth_vars, preview, showPreview, error, form_vars, text_vars>>

\* The backend's state changes: a stop of the route is delivered.
backend_stop_delivered(k) ==
  /\ k \in DOMAIN backend_stops
  /\ backend_stops[k].deliveryStatus /= "DELIVERED"
  /\ backend_stops' = [backend_stops EXCEPT ![k].deliveryStatus = "DELIVERED"]
  /\ previews_since_change' = 0
  /\ UNCHANGED <<pipeline_vars, auth_vars, preview, showPreview, error, form_vars, text_vars>>

\* The most sends the operator submits in the model.
MaxSends == 3

\* The most fetch calls in flight the model follows.
MaxInFlight == 2

\* What a fetch call of the form comes to: a response that is ok, a response
\* that is not, or a rejected promise (the network failed, or the body is no
\* JSON).
Fetched == {"ok", "not_ok", "network_error"}

\* requests without its k-th entry.
Without(k) == SubSeq(requests, 1, k - 1) \o SubSeq(requests, k + 1, Len(requests))

\* The Preview button's disabled attribute as it would be without loading.
preview_disabled_ignores_loading(routeNumber_given) == ~routeNumber_given

\* disabled={loading || !routeNumber} of the Preview button.
preview_disabled(routeNumber_given) == loading \/ ~routeNumber_given

\* disabled={loading || !routeNumber || !message} of the Send button.
submit_disabled(routeNumber_given, message_given) ==
  loading \/ ~routeNumber_given \/ ~message_given

\* SMSForm.handlePreview up to its fetch, on a click of the Preview button:
\* without a route number an error is shown; otherwise loading is set, the
\* error cleared and the request to /api/sms/preview goes out.
handlePreview(routeNumber_given) ==
  /\ ~preview_disabled(routeNumber_given)
  /\ Len(requests) < MaxInFlight
  /\ IF ~routeNumber_given
     THEN /\ error' = "Please enter a route number first"
          /\ UNCHANGED <<loading, requests>>
     ELSE /\ loading' = TRUE
          /\ error' = ""
          /\ requests' = Append(requests, [kind |-> "preview", id |-> 0])
  /\ UNCHANGED <<pipeline_vars, auth_vars, backend_stops, preview, showPreview,
                 previews_since_change, form_results, sends, text_vars>>

\* handlePreview_response as it would be if handlePreview had posted to
\* /api/sms/send: the incomplete stops with a phone number are sent to.
handlePreview_submits(fetched) ==
  /\ \E k \in DOMAIN requests :
       /\ requests[k].kind = "preview"
       /\ requests' = Without(k)
  /\ fetched = "ok"
  /\ previews_since_change < MaxPreviews
  /\ preview' = preview_route(backend_stops)
  /\ showPreview' = TRUE
  /\ previews_since_change' = previews_since_change + 1
  /\ loading' = FALSE
  /\ sendLog' = sendLog \o
       [k \in DOMAIN SelectSeq(get_incomplete_stops(backend_stops), has_phone) |->
          [stop_id |-> SelectSeq(get_incomplete_stops(backend_stops), has_phone)[k].id,
           to |-> <<>>, outcome |-> "ok", at |-> now]]
  /\ UNCHANGED <<pipeline, pc, dry_run, stops, incomplete, i, results, cli_results, response>>
  /\ UNCHANGED <<request_vars, auth_vars, backend_stops, error, form_results, sends, text_vars>>

\* SMSForm.handlePreview from the response of its fetch on: a response that is
\* ok is stored and shown; a response that is not ok, or a network error,
\* sets the error only; finally loading is reset.
handlePreview_response(fetched) ==
  /\ \E k \in DOMAIN requests :
       /\ requests[k].kind = "preview"
       /\ requests' = Without(k)
  /\ fetched = "ok" => previews_since_change < MaxPreviews
  /\ IF fetched = "ok"
     THEN /\ preview' = preview_route(backend_stops)
          /\ showPreview' = TRUE
          /\ previews_since_change' = previews_since_change + 1
          /\ error' = error
     ELSE /\ error' = IF fetched = "not_ok" THEN "Failed to preview route"
                      ELSE "Network error. Please try again."
          /\ UNCHANGED <<preview, showPreview, previews_since_change>>
  /\ loading' = FALSE
  /\ UNCHANGED <<pipeline_vars, auth_vars, backend_stops, form_results, sends, text_vars>>

\* handleSubmit as it would be if it left the previous results in place.
handleSubmit_keeps_results(routeNumber_given, message_given) ==
  /\ ~submit_disabled(routeNumber_given, message_given)
  /\ sends < MaxSends /\ Len(requests) < MaxInFlight
  /\ loading' = TRUE
  /\ error' = ""
  /\ sends' = sends + 1
  /\ requests' = Append(requests, [kind |-> "send", id |-> sends + 1])
  /\ UNCHANGED <<pipeline_vars, auth_vars, backend_stops, preview, showPreview,
                 previews_since_change, form_results, text_vars>>

\* SMSForm.handleSubmit up to its fetch, on a submit of the form: loading is
\* set, the error and the results are cleared and the request to
\* /api/sms/send goes out. (What the server does with it is send_sms above.)
handleSubmit(routeNumber_given, message_given) ==
  /\ ~submit_disabled(routeNumber_given, message_given)
  /\ sends < MaxSends /\ Len(requests) < MaxInFlight
  /\ loading' = TRUE
  /\ error' = ""
  /\ form_results' = NoFormResults
  /\ sends' = sends + 1
  /\ requests' = Append(requests, [kind |-> "send", id |-> sends + 1])
  /\ UNCHANGED <<pipeline_vars, auth_vars, backend_stops, preview, showPreview,
                 previews_since_change, text_vars>>

\* SMSForm.handleSubmit from the response of its fetch on: the results of a
\* response that is ok are stored and the preview hidden; a response that is
\* not ok, or a network error, sets the error only; finally loading is reset.
handleSubmit_response(fetched) ==
  /\ \E k \in DOMAIN requests :
       /\ requests[k].kind = "send"
       /\ requests' = Without(k)
       /\ IF fetched = "ok"
          THEN /\ form_results' = [received |-> TRUE, send |-> requests[k].id]
               /\ showPreview' = FALSE
               /\ error' = error
          ELSE /\ error' = IF fetched = "not_ok" THEN "Failed to send messages"
                           ELSE "Network error. Please try again."
               /\ UNCHANGED <<form_results, showPreview>>
  /\ loading' = FALSE
  /\ UNCHANGED <<pipeline_vars, auth_vars, backend_stops, preview, previews_since_change,
                 sends, text_vars>>

\* SMSForm.resetForm, on the button ResultsDisplay shows with the results.
resetForm ==
  /\ form_results.received
  /\ form_results' = NoFormResults
  /\ error' = ""
  /\ preview' = NoPreview
  /\ showPreview' = FALSE
  /\ UNCHANGED <<pipeline_vars, auth_vars, backend_stops, previews_since_change,
                 loading, requests, sends, text_vars>>

\* ---------------------------------------------------------- specification
Next ==
  \/ \E ok \in BOOLEAN : login(ok)
  \/ logout
  \/ require_auth_rejects
  \/ \E g \in BOOLEAN, n \in MessageLengths : send_sms_validate(g, n)
  \/ client_ensure_authenticated
  \/ send_sms_not_found
  \/ send_sms_backend_error
  \/ send_sms_fetch
  \/ send_messages_to_stops_no_phone
  \/ \E o \in ProviderOutcomes : send_messages_to_stops_send(o)
  \/ send_sms_return
  \/ \E d \in BOOLEAN : process_routes_start(d)
  \/ process_routes_get_routes_error
  \/ process_routes_fetch
  \/ process_routes_no_phone
  \/ process_routes_render_error
  \/ process_routes_dry_run
  \/ \E o \in ProviderOutcomes : process_routes_send(o)
  \/ process_routes_return

\* The two orchestrators over one route.
Spec == Init /\ [][Next]_vars

NextAuth ==
  \/ \E c \in Callers : get_routes_start(c)
  \/ \E c \in Callers : ensure_authenticated(c)
  \/ \E c \in Callers : authenticate_ok(c)
  \/ \E c \in Callers : authenticate_fail(c)
  \/ \E c \in Callers : response_ok(c)
  \/ \E c \in Callers : response_unauthorized(c)
  \/ \E c \in Callers : response_client_error(c)
  \/ \E c \in Callers : response_transient(c)
  \/ \E c \in Callers : backoff_over(c)
  \/ Tick

\* The route-data client under concurrent backend calls.
SpecAuth == Init /\ [][NextAuth]_vars

NextPreview ==
  \/ backend_route_created
  \/ \E k \in 1..MaxStops : backend_stop_delivered(k)
  \/ \E g \in BOOLEAN : handlePreview(g)
  \/ \E f \in Fetched : handlePreview_response(f)

NextForm ==
  \/ \E g \in BOOLEAN : handlePreview(g)
  \/ \E f \in Fetched : handlePreview_response(f)
  \/ \E g \in BOOLEAN, m \in BOOLEAN : handleSubmit(g, m)
  \/ \E f \in Fetched : handleSubmit_response(f)
  \/ resetForm

NextPhone ==
  \E lead \in {"0", "1", "5"}, n \in 0..MaxDigits, style \in PhoneStyles :
    format_phone_number_applied(lead, n, style)

\* The SMS client formats the phone numbers it is given.
SpecPhone == Init /\ [][NextPhone]_vars

NextRender ==
  \/ \E template \in Templates, variables \in VariableMaps, unconfigured \in Unconfigured :
       render_called(template, variables, unconfigured)
  \/ \E delivery_status \in DeliveryStatus : get_status_message_called(delivery_status)

\* The renderer over templates and variable maps.
SpecRender == Init /\ [][NextRender]_vars

\* The operator previews a route while the backend's state changes.
SpecPreview == Init /\ [][NextPreview]_vars

\* The operator works with SMSForm: previews, sends, resets.
SpecForm == Init /\ [][NextForm]_vars

\* SpecForm where every fetch call comes to an end: its promise is fulfilled
\* or rejected.
SpecFormFair ==
  /\ SpecForm
  /\ WF_vars(\E f \in Fetched : handlePreview_response(f))
  /\ WF_vars(\E f \in Fetched : handleSubmit_response(f))

\* ------------------------------------------------------------- properties
\* The four statuses the API research lists as incomplete.
NotDeliveredStatuses ==
  {"UNKNOWN", "OUT_FOR_DELIVERY", "ATTEMPTED_DELIVERY", "READY_FOR_DELIVERY"}

\* The ids of a sequence of stops, in order.
Ids(ss) == [k \in DOMAIN ss |-> ss[k].id]

\* The stop ids the recorded outcomes belong to, in the order recorded: the
\* details of the web results; for the command line, whose result dicts carry
\* no stop id, the stop of the send each result came from.
OutcomeIds ==
  IF pipeline = "web"
  THEN [j \in DOMAIN results.details |-> results.details[j].stop_id]
  ELSE [j \in DOMAIN cli_results |-> sendLog[j].stop_id]

\* The positions of the outcomes recorded for one stop.
OutcomesFor(stop_id) == {j \in DOMAIN OutcomeIds : OutcomeIds[j] = stop_id}

\* The invocation gave back its results (not an error).
ReturnedResults ==
  /\ pc = "done"
  /\ \/ pipeline = "web" /\ response.status = 200
     \/ pipeline = "cli" /\ response.status = 0

\* The invocation ended with one of the fatal errors: a request the web app
\* rejects (401, 400), a route it does not find (404), a backend failure (500,
\* or the command line's exit after get_routes failed), a TemplateError.
EndedWithFatalError ==
  /\ pc = "done"
  /\ \/ pipeline = "web" /\ response.status \in {401, 400, 404, 500}
     \/ /\ pipeline = "cli" /\ response.status = 1
        /\ response.error \in {"BackendError", "TemplateError"}

\* C1: the filter returns exactly the stops of the route whose status is not
\* DELIVERED (one of UNKNOWN, OUT_FOR_DELIVERY, ATTEMPTED_DELIVERY,
\* READY_FOR_DELIVERY), each once, in the order of route.stops, and no
\* DELIVERED stop.
C1_IncompleteStopsExact ==
  /\ \A k \in 1..Len(incomplete) :
       /\ incomplete[k].deliveryStatus \in NotDeliveredStatuses
       /\ incomplete[k].id \in 1..Len(stops)
       /\ incomplete[k] = stops[incomplete[k].id]
  /\ \A j \in 1..Len(stops) :
       stops[j].deliveryStatus /= "DELIVERED"
         => \E k \in 1..Len(incomplete) : incomplete[k] = stops[j]
  /\ \A k1, k2 \in 1..Len(incomplete) :
       k1 < k2 => incomplete[k1].id < incomplete[k2].id

\* C1 witness: statuses [DELIVERED, OUT_FOR_DELIVERY, READY_FOR_DELIVERY] are
\* filtered to the latter two, in order.
C1_Witness ==
  /\ Len(stops) = 3
  /\ stops[1].deliveryStatus = "DELIVERED"
  /\ stops[2].deliveryStatus = "OUT_FOR_DELIVERY"
  /\ stops[3].deliveryStatus = "READY_FOR_DELIVERY"
  /\ Ids(incomplete) = <<2, 3>>

\* C2: every call of the SMS provider is for a stop of the fetched route whose
\* status is not DELIVERED and which has a phone number.
C2_SendsOnlyIncompleteWithPhone ==
  \A k \in 1..Len(sendLog) :
    /\ sendLog[k].stop_id \in 1..Len(stops)
    /\ stops[sendLog[k].stop_id].deliveryStatus /= "DELIVERED"
    /\ stops[sendLog[k].stop_id].phone /= NoPhone

\* C2 witness: a finished invocation that sent something on a route that also
\* has a DELIVERED stop with a phone number.
C2_Witness ==
  /\ pc = "done"
  /\ Len(sendLog) >= 1
  /\ \E j \in 1..Len(stops) :
       stops[j].deliveryStatus = "DELIVERED" /\ stops[j].phone /= NoPhone

\* C3: a failed dispatch never aborts the loop: when the invocation is over
\* (and not for a fatal error), no incomplete stop after the one the loop stands
\* at is left unprocessed.
C3_FailedDispatchNeverAborts ==
  (pc = "done" /\ ~EndedWithFatalError) => ~(i < Len(incomplete))

C6_NoIncompleteStopsResult ==
  (/\ pipeline = "web" /\ pc = "done" /\ response.status = 200
   /\ Len(stops) >= 1 /\ incomplete = <<>>) =>
    /\ sendLog = <<>>
    /\ response.results.messages_sent = 0
    /\ response.results.failures = 0
    /\ response.results.details = <<>>
    /\ response.results.total_stops = Len(stops)
    /\ "incomplete_stops" \in DOMAIN response.results
    /\ response.results.incomplete_stops = 0

C8_RequestsOnlyWithValidToken ==
  [][\A c \in Callers :
       /\ (call[c].pc /= "request" /\ call'[c].pc = "request") =>
            /\ call[c].pc \in {"ensure", "authenticating", "waiting"}
            /\ access_token' /= NoToken
            /\ token_expires_at' - now' > SafetyMargin
       /\ (call[c].pc /= "authenticating" /\ call'[c].pc = "authenticating") =>
            /\ call[c].pc = "ensure"
            /\ (access_token = NoToken \/ token_expires_at - now <= SafetyMargin)
       /\ (call[c].pc = "ensure" /\ call'[c].pc = "request") =>
            /\ access_token /= NoToken
            /\ token_expires_at - now > SafetyMargin
            /\ UNCHANGED <<access_token, token_expires_at>>]_vars

\* C8 witness: a request in flight under a token obtained by a refresh after
\* the first token had come within the margin of its expiry.
C8_Witness ==
  \E c \in Callers :
    /\ call[c].pc = "request"
    /\ access_token /= NoToken
    /\ token_expires_at > TokenLifetime
    /\ token_expires_at - now > SafetyMargin

\* C9: every 401/403 discards the token; the first one of a call sends it back
\* through _ensure_authenticated for one retry, the second one ends the call
\* with the error, so a call sees at most two and re-authenticates at most once.
C9_OneReauthenticateAndRetry ==
  [][\A c \in Callers :
       /\ call'[c].unauthorized <= 2
       /\ (call'[c].unauthorized = call[c].unauthorized + 1) =>
            /\ access_token' = NoToken
            /\ call[c].unauthorized = 0 =>
                 (call'[c].pc = "ensure" /\ call'[c].result = "none")
            /\ call[c].unauthorized = 1 =>
                 (call'[c].pc = "done" /\ call'[c].result = "AuthError")]_vars

\* C9 witness: a call whose retry after re-authentication was rejected too.
C9_Witness ==
  \E c \in Callers :
    /\ call[c].unauthorized = 2
    /\ call[c].pc = "done"
    /\ call[c].result = "AuthError"

CallsFor(stop_id) == SelectSeq(sendLog, LAMBDA e : e.stop_id = stop_id)

\* C11: within one invocation any two consecutive calls of the SMS provider
\* are at least the minimum inter-send delay (1 time unit) apart, whatever
\* the outcomes of the sends.
C11_MinimumInterSendDelay ==
  \A k \in 1..(Len(sendLog) - 1) :
    sendLog[k + 1].at - sendLog[k].at >= RATE_LIMIT_DELAY

\* C12: a send the provider rejects as rate limited is retried exactly once:
\* once the loop has passed a stop, the stop has two calls if its first call
\* was rate limited and one call otherwise, so never more than two.
C12_RateLimitedRetriedOnce ==
  \A k \in 1..Len(incomplete) :
    (k < i /\ CallsFor(incomplete[k].id) /= <<>>) =>
      LET calls == CallsFor(incomplete[k].id)
      IN /\ Len(calls) <= 2
         /\ Len(calls) = IF calls[1].outcome = "rate_limited" THEN 2 ELSE 1

\* C13: send never raises on a provider error: every call of the provider,
\* whatever the provider did, is answered with an outcome the orchestrator
\* records, and so no call leaves the invocation without one.
C13_SendNeverRaises ==
  /\ pipeline = "cli" => Len(cli_results) = Len(sendLog)
  /\ pipeline = "web" =>
       Cardinality({j \in DOMAIN results.details : results.details[j].phone /= None})
         = Len(sendLog)

\* C14: an invocation that ends with a fatal error (authentication, backend,
\* route not found or bad request, template) has made no call of the SMS
\* provider and returns no results; a TemplateError comes before the first send.
C14_FatalErrorBeforeAnySend ==
  EndedWithFatalError =>
    /\ sendLog = <<>>
    /\ "results" \notin DOMAIN response

\* C15: once the first incomplete stop has been taken up for dispatch, the
\* invocation ends in the aggregated state and returns its results, whatever
\* successes, failed sends and missing phones follow: it never ends otherwise.
C15_DispatchAlwaysReturnsResults ==
  (pc = "done" /\ incomplete /= <<>> /\ ~EndedWithFatalError) => ReturnedResults

\* The stops of the backend's route that are not delivered, in route order.
BackendNotDelivered ==
  SelectSeq(backend_stops, LAMBDA s : s.deliveryStatus /= "DELIVERED")

C17_OutcomesHoldLast4Only ==
  /\ \A j \in DOMAIN results.details :
       \/ results.details[j].phone = None
       \/ /\ Len(results.details[j].phone) <= 4
          /\ results.details[j].phone /= stops[results.details[j].stop_id].phone
  /\ \A j \in DOMAIN cli_results :
       /\ Len(cli_results[j].to) <= 4
       /\ cli_results[j].to /= stops[sendLog[j].stop_id].phone

\* C18: phone normalization strips every character that is no digit and
\* returns +1 and the digits when 10 digits remain, + and the digits when 11
\* digits remain and the first is 1, and + and the digits in every other
\* case; every input gets a result.
C18_NormalizationByDigitCount ==
  phone.given =>
    LET digits == phone.digits
    IN /\ Len(digits) = 10 => phone.formatted = <<"+", "1">> \o digits
       /\ (Len(digits) = 11 /\ digits[1] = "1") => phone.formatted = <<"+">> \o digits
       /\ (Len(digits) /= 10 /\ ~(Len(digits) = 11 /\ digits[1] = "1")) =>
            phone.formatted = <<"+">> \o digits
       /\ Head(phone.formatted) = "+"
       /\ \A k \in 2..Len(phone.formatted) : phone.formatted[k] \in Digits

\* C18 witness: (555) 5123456, ten digits written with separators, is
\* formatted to +15555123456.
C18_Witness ==
  /\ phone.given
  /\ phone.phone_number = <<"(", "5", "5", "5", ")", " ", "5", "1", "2", "3", "4", "5", "6">>
  /\ phone.formatted = <<"+", "1", "5", "5", "5", "5", "1", "2", "3", "4", "5", "6">>

\* C19: phone normalization is idempotent: formatting a formatted number
\* gives the formatted number again.
C19_NormalizationIdempotent ==
  phone.given => phone.reformatted = phone.formatted

\* C19 witness: +15551234567 is formatted to itself, and again to itself.
C19_Witness ==
  /\ phone.given
  /\ phone.phone_number = <<"+", "1", "5", "5", "5", "1", "2", "3", "4", "5", "6", "7">>
  /\ phone.formatted = phone.phone_number
  /\ phone.reformatted = phone.phone_number

\* The placeholders of the rendered template the map has no value for.
MissingFromMap ==
  {j \in DOMAIN rendering.template : rendering.template[j] \notin rendering.variables}

C23_DryRunSendsNothing ==
  /\ [](pipeline = "cli" /\ dry_run => sendLog = <<>> /\ cli_results = <<>>)
  /\ [][pipeline = "cli" /\ dry_run => sendLog' = sendLog]_vars

\* A dry run went through a route with an incomplete stop that has a phone
\* number, and ended.
C23_Witness ==
  /\ pipeline = "cli" /\ dry_run
  /\ pc = "done" /\ response.status = 0
  /\ \E k \in 1..Len(incomplete) : has_phone(incomplete[k])
  /\ sendLog = <<>>

\* C24: a request to the send endpoint from a session that is not
\* authenticated is answered with 401 and send_sms is not executed: no
\* message is read, no route is fetched, nothing is sent. A request that got
\* any other treatment came from a session a successful login authenticated.
C24_SendRequiresAuthentication ==
  /\ []((pipeline = "web" /\ pc /= "idle" /\ ~session.authenticated) =>
          /\ pc = "done"
          /\ response = [status |-> 401, error |-> "Authentication required"]
          /\ message = 0 /\ stops = <<>> /\ incomplete = <<>> /\ sendLog = <<>>)
  /\ []((pipeline = "web" /\ pc /= "idle" /\ response.status /= 401) =>
          session.authenticated)
  /\ [][(pc = "idle" /\ pc' /= "idle" /\ pipeline' = "web" /\ ~session.authenticated) =>
          /\ pc' = "done" /\ response'.status = 401
          /\ UNCHANGED <<message, stops, incomplete, sendLog>>]_vars

\* A request of a session that is not authenticated was answered with 401.
C24_Witness ==
  /\ pipeline = "web" /\ ~session.authenticated
  /\ pc = "done" /\ response.status = 401
  /\ sendLog = <<>> /\ stops = <<>>

RecordedSendOutcomes ==
  IF pipeline = "web"
  THEN Len(SelectSeq(results.details, LAMBDA d : d.phone /= None))
  ELSE Len(cli_results)

\* C26: within one invocation the stops are dispatched strictly one after
\* another. A step makes at most one call of the provider; when a send
\* starts, the outcome of every earlier send has been recorded; the send is
\* for the stop the loop stands at, and the loop moves to the next stop only
\* with that send over.
C26_DispatchStrictlySequential ==
  /\ [][Len(sendLog') \in {Len(sendLog), Len(sendLog) + 1}]_vars
  /\ [][sendLog' /= sendLog =>
          /\ RecordedSendOutcomes = Len(sendLog)
          /\ sendLog'[Len(sendLog')].stop_id = incomplete[i].id
          /\ \A k \in 1..Len(sendLog) :
               \E j \in 1..(i - 1) : incomplete[j].id = sendLog[k].stop_id
          /\ i' \in {i, i + 1}]_vars
  /\ [](pc = "dispatching" => RecordedSendOutcomes = Len(sendLog))

\* Two stops were sent to, one after the other, and both outcomes recorded.
C26_Witness ==
  /\ Len(sendLog) >= 2
  /\ RecordedSendOutcomes = Len(sendLog)
  /\ sendLog[1].stop_id /= sendLog[2].stop_id

\* The number of details with the given status.
CountStatus(details, status) == Len(SelectSeq(details, LAMBDA d : d.status = status))

\* The counts of a results dict agree with its details.
CountsAgree(r) ==
  /\ r.messages_sent + r.failures = Len(r.details)
  /\ r.messages_sent = CountStatus(r.details, "sent")
  /\ r.failures = CountStatus(r.details, "failed")

\* C27: at every step of send_messages_to_stops' loop messages_sent + failures
\* is the number of details, messages_sent the number of details with status
\* sent and failures the number with status failed; the loop has recorded one
\* detail per stop it has passed, and in the results send_sms returns the sum
\* is the number of incomplete stops.
C27_CountsMatchDetails ==
  pipeline = "web" =>
    /\ CountsAgree(results)
    /\ pc = "dispatching" => Len(results.details) = i - 1
    /\ (pc = "done" /\ response.status = 200) =>
         /\ CountsAgree(response.results)
         /\ response.results.messages_sent + response.results.failures = Len(incomplete)
         /\ response.results.total_stops = Len(incomplete)

\* send_sms returned results with a message sent and a failure.
C27_Witness ==
  /\ pipeline = "web" /\ pc = "done" /\ response.status = 200
  /\ response.results.messages_sent >= 1
  /\ response.results.failures >= 1
  /\ Len(response.results.details) = Len(incomplete)

\* Every outcome recorded so far: the details of the web results, the result
\* dicts of the command line.
RecordedOutcomes ==
  {results.details[k] : k \in DOMAIN results.details}
    \cup {cli_results[k] : k \in DOMAIN cli_results}

\* An outcome tagged sent carries a message sid and no error, one tagged
\* failed an error and no message sid.
WellFormedDetail(d) ==
  /\ "status" \in DOMAIN d
  /\ d.status \in {"sent", "failed"}
  /\ d.status = "sent" =>
       "message_sid" \in DOMAIN d /\ d.message_sid /= "" /\ "error" \notin DOMAIN d
  /\ d.status = "failed" =>
       "error" \in DOMAIN d /\ d.error /= "" /\ "message_sid" \notin DOMAIN d

C29_OneRequestInFlight ==
  /\ [](Len(requests) <= 1)
  /\ [](requests /= <<>> =>
          /\ loading
          /\ \A g \in BOOLEAN, m \in BOOLEAN : preview_disabled(g) /\ submit_disabled(g, m))
  /\ [][Len(requests') < Len(requests) => ~loading']_vars
  /\ (loading ~> ~loading)

\* The operator's second send is in flight.
C29_Witness ==
  /\ loading
  /\ requests = <<[kind |-> "send", id |-> 2]>>
  /\ preview_disabled(TRUE) /\ submit_disabled(TRUE, TRUE)

\* A send of the form is in flight.
SendInFlight == \E k \in DOMAIN requests : requests[k].kind = "send"

====
